---- MODULE Spec2Model ----
(***************************************************************************)
(* State-machine model of the trading_engine package: the historic data   *)
(* handler (data.py), the event types (event.py), the portfolio ledger     *)
(* (portfolio.py) and the performance statistics (performance.py).         *)
(*                                                                         *)
(* Python floats that hold prices and money in the ledger are modelled as  *)
(* integers: the prices, quantities and commissions used there are whole   *)
(* numbers.  Where the code divides (price adjustment, statistics) floats  *)
(* are exact fractions, with inf and NaN.                                  *)
(***************************************************************************)
EXTENDS Integers, Sequences, FiniteSets, TLC

(***************************************************************************)
(* Bounds of the model.                                                    *)
(***************************************************************************)
MaxBars == 2        \* rows of the aligned frame in a generated data set
MaxQueue == 2       \* items on the event queue
MaxUpdateBars == 4  \* calls of update_bars by a direct caller
MaxFills == 2       \* FillEvents handed to update_fill by a direct caller
MaxRecords == 2     \* records in all_holdings / all_positions
MaxSignals == 2     \* SignalEvents the strategy emits during one backtest
MaxDates == 3       \* calendar dates in the files read at construction
MaxCurve == 3       \* rows of the equity curve frame

(***************************************************************************)
(* Program constants.                                                      *)
(***************************************************************************)
initial_capital == 100000   \* Portfolio.__init__ default
mkt_quantity == 100         \* generate_naive_order
start_date == 0             \* every loaded row is later than start_date

symbol_list == <<"A", "B">>
Symbols == {symbol_list[i] : i \in 1..Len(symbol_list)}
UnknownSymbol == "X"
AnySymbol == Symbols \cup {UnknownSymbol}
Directions == {"BUY", "SELL"}

(***************************************************************************)
(* Input domains.                                                          *)
(***************************************************************************)
Quantities == {100}
\* What a venue reports for a fill: the price it filled at and its commission.
FillQuotes == {[fill_cost |-> 100, commission |-> 0], [fill_cost |-> 105, commission |-> 5]}
ValTypes == {"close", "adj_close"}
\* The n of get_latest_bars: none, fewer than, as many as and more than the bars seen.
BarCounts == 0..(MaxBars + 1)

VARIABLES
    symbol_data,          \* handler: per symbol, the rows of the aligned frame
    cursor,               \* handler: rows already consumed from the iterrows() iterator
    latest_symbol_data,   \* handler: per symbol, the bars observed so far
    continue_backtest,    \* handler flag
    events,               \* the event queue shared by handler and portfolio
    current_positions,    \* portfolio
    current_holdings,     \* portfolio
    all_positions,        \* portfolio history
    all_holdings,         \* portfolio history
    ret,                  \* outcome of the most recent call: value or raised exception
    n_update_bars,        \* history: calls of update_bars so far
    n_fills,              \* history: events passed to update_fill so far
    fill_price,           \* history: per symbol, the price its most recent fill was charged at
    fills_failed,         \* history: some call of update_fill has raised
    equity_curve,         \* portfolio: the equity curve frame the statistics are computed from
    pc,                   \* backtest loop: position of the driver
    trace                 \* backtest loop, history: the events dispatched so far

handler_vars == <<symbol_data, cursor, latest_symbol_data, continue_backtest>>
portfolio_vars == <<current_positions, current_holdings, all_positions, all_holdings>>
fill_hist == <<n_fills, fill_price, fills_failed>>
loop_vars == <<pc, trace>>
vars == <<symbol_data, cursor, latest_symbol_data, continue_backtest, events,
          current_positions, current_holdings, all_positions, all_holdings,
          equity_curve, ret, n_update_bars, n_fills, fill_price, fills_failed, pc, trace>>

(***************************************************************************)
(* event.py                                                                *)
(***************************************************************************)
None == [none |-> TRUE]

MarketEvent == [type |-> "MARKET"]

SignalEvent(strategy_id, symbol, datetime, direction) ==
    [type |-> "SIGNAL", strategy_id |-> strategy_id, symbol |-> symbol,
     datetime |-> datetime, direction |-> direction]

OrderEvent(symbol, order_type, quantity, direction) ==
    [type |-> "ORDER", symbol |-> symbol, order_type |-> order_type,
     quantity |-> quantity, direction |-> direction]

\* Mutant: a fill is tagged as an order.
FillEvent_order_tag(datetime, symbol, exchange, quantity, direction, fill_cost, commission) ==
    [type |-> "ORDER", datetime |-> datetime, symbol |-> symbol, exchange |-> exchange,
     quantity |-> quantity, direction |-> direction, fill_cost |-> fill_cost,
     commission |-> commission]

FillEvent(datetime, symbol, exchange, quantity, direction, fill_cost, commission) ==
    [type |-> "FILL", datetime |-> datetime, symbol |-> symbol, exchange |-> exchange,
     quantity |-> quantity, direction |-> direction, fill_cost |-> fill_cost,
     commission |-> commission]

(***************************************************************************)
(* Outcome of a call: a returned value or the exception that left it.      *)
(***************************************************************************)
Returned(op, arg, value) == [op |-> op, arg |-> arg, outcome |-> "ok", value |-> value]
Raised(op, arg, exc) == [op |-> op, arg |-> arg, outcome |-> exc, value |-> None]

(***************************************************************************)
(* data.py: the aligned frame.  A bar is the pair iterrows() yields:       *)
(* bar[1] is the index (timestamp), bar[2] the row.                        *)
(***************************************************************************)
Row(close, adj_close) == [close |-> close, adj_close |-> adj_close]

\* Distance in days between two rows of a generated frame.
Calendars == {1, 2}

\* Closing price of a symbol on a date: the price table of the generated frames.
\* B trades at 100 on date 1; the "yesterday" reference of its next row is 50.
PriceOn(s, d) ==
    IF s = "A" THEN (IF d % 2 = 1 THEN 100 ELSE 110)
    ELSE (IF d = 1 THEN 100 ELSE 60)

\* adj_close of row i as _adjust_prices leaves it: the close, scaled by the
\* factor 50 / 100 of B's discontinuity at its second row on every row up to
\* and including that row.
AdjustedOn(s, idx, i) ==
    IF s = "B" /\ Len(idx) >= 2 /\ i <= 2 THEN PriceOn(s, idx[i]) \div 2 ELSE PriceOn(s, idx[i])

\* The frames _reindex leaves in symbol_data: every symbol on the same sorted index.
Frames(n) ==
    {[s \in Symbols |-> [i \in 1..n |-> <<idx[i], Row(PriceOn(s, idx[i]), AdjustedOn(s, idx, i))>>]] :
        idx \in {[i \in 1..n |-> start_date + 1 + step * (i - 1)] : step \in Calendars}}

DataSets == UNION {Frames(n) : n \in 0..MaxBars}

\* The frame of the five-day, two-instrument scenario.
ScenarioCloses ==
    [s \in Symbols |-> IF s = "A" THEN <<100, 101, 99, 105, 110>> ELSE <<50, 50, 52, 49, 48>>]
ScenarioData ==
    [s \in Symbols |-> [i \in 1..5 |-> <<i, Row(ScenarioCloses[s][i], ScenarioCloses[s][i])>>]]

(***************************************************************************)
(* portfolio.py: construction                                              *)
(***************************************************************************)
HoldingKeys == Symbols \cup {"cash", "commission", "total"}

construct_all_positions ==
    <<[k \in Symbols \cup {"datetime"} |-> IF k = "datetime" THEN start_date ELSE 0]>>

construct_all_holdings ==
    <<[k \in HoldingKeys \cup {"datetime"} |->
        CASE k = "datetime" -> start_date
          [] k = "cash" -> initial_capital
          [] k = "commission" -> 0
          [] k = "total" -> initial_capital
          [] OTHER -> 0]>>

construct_current_holdings ==
    [k \in HoldingKeys |->
        CASE k = "cash" -> initial_capital
          [] k = "commission" -> 0
          [] k = "total" -> initial_capital
          [] OTHER -> 0]

InitWith(data, start_pc, curves) ==
    /\ symbol_data \in data
    /\ cursor = [s \in Symbols |-> 0]
    /\ latest_symbol_data = [s \in Symbols |-> <<>>]
    /\ continue_backtest = TRUE
    /\ events = <<>>
    /\ current_positions = [s \in Symbols |-> 0]
    /\ current_holdings = construct_current_holdings
    /\ all_positions = construct_all_positions
    /\ all_holdings = construct_all_holdings
    /\ equity_curve \in curves
    /\ ret = Returned("__init__", None, None)
    /\ n_update_bars = 0
    /\ n_fills = 0
    /\ fill_price = [s \in Symbols |-> 0]
    /\ fills_failed = FALSE
    /\ pc = start_pc
    /\ trace = <<>>

Init == InitWith(DataSets, "api", {None})

(***************************************************************************)
(* data.py: update_bars and the accessors                                  *)
(***************************************************************************)
\* next(self._get_new_bar(s)): the next row of the shared iterator, if any.
HasNext(s) == cursor[s] < Len(symbol_data[s])

\* Mutant: every call iterates the frame from its first row again.
NextBar_restart(s) == symbol_data[s][1]

NextBar(s) == symbol_data[s][cursor[s] + 1]

\* Mutant: exhaustion of the source is not recorded.
update_bars_endless ==
    /\ cursor' = [s \in Symbols |-> IF HasNext(s) THEN cursor[s] + 1 ELSE cursor[s]]
    /\ latest_symbol_data' =
          [s \in Symbols |-> IF HasNext(s) THEN Append(latest_symbol_data[s], NextBar(s))
                                           ELSE latest_symbol_data[s]]
    /\ continue_backtest' = continue_backtest
    /\ events' = Append(events, MarketEvent)
    /\ n_update_bars' = n_update_bars + 1
    /\ UNCHANGED symbol_data

update_bars ==
    /\ cursor' = [s \in Symbols |-> IF HasNext(s) THEN cursor[s] + 1 ELSE cursor[s]]
    /\ latest_symbol_data' =
          [s \in Symbols |-> IF HasNext(s) THEN Append(latest_symbol_data[s], NextBar(s))
                                           ELSE latest_symbol_data[s]]
    /\ continue_backtest' = IF \E s \in Symbols : ~HasNext(s) THEN FALSE ELSE continue_backtest
    /\ events' = Append(events, MarketEvent)
    /\ n_update_bars' = n_update_bars + 1
    /\ UNCHANGED symbol_data

Last(seq) == seq[Len(seq)]

\* Mutant: an empty history yields a default instead of raising.
get_latest_bar_default(symbol) ==
    IF symbol \notin Symbols THEN Raised("get_latest_bar", symbol, "KeyError")
    ELSE IF latest_symbol_data[symbol] = <<>> THEN Returned("get_latest_bar", symbol, None)
    ELSE Returned("get_latest_bar", symbol, Last(latest_symbol_data[symbol]))

get_latest_bar(symbol) ==
    IF symbol \notin Symbols THEN Raised("get_latest_bar", symbol, "KeyError")
    ELSE IF latest_symbol_data[symbol] = <<>> THEN Raised("get_latest_bar", symbol, "IndexError")
    ELSE Returned("get_latest_bar", symbol, Last(latest_symbol_data[symbol]))

get_latest_bar_datetime(symbol) ==
    IF symbol \notin Symbols THEN Raised("get_latest_bar_datetime", symbol, "KeyError")
    ELSE IF latest_symbol_data[symbol] = <<>>
         THEN Raised("get_latest_bar_datetime", symbol, "IndexError")
    ELSE Returned("get_latest_bar_datetime", symbol, Last(latest_symbol_data[symbol])[1])

get_latest_bar_value(symbol, val_type) ==
    IF symbol \notin Symbols
    THEN Raised("get_latest_bar_value", <<symbol, val_type>>, "KeyError")
    ELSE IF latest_symbol_data[symbol] = <<>>
         THEN Raised("get_latest_bar_value", <<symbol, val_type>>, "IndexError")
    ELSE Returned("get_latest_bar_value", <<symbol, val_type>>,
                  Last(latest_symbol_data[symbol])[2][val_type])

\* seq[start:] of a Python list: a negative start counts from the end and is
\* clamped at the first element; a start of 0 or more counts from the front.
SliceFrom(seq, start) ==
    LET h == Len(seq)
        first == IF start < 0 THEN (IF h + start < 0 THEN 0 ELSE h + start)
                 ELSE (IF start > h THEN h ELSE start)
    IN SubSeq(seq, first + 1, h)

get_latest_bars(symbol, n) ==
    IF symbol \notin Symbols THEN Raised("get_latest_bars", <<symbol, n>>, "KeyError")
    ELSE Returned("get_latest_bars", <<symbol, n>>, SliceFrom(latest_symbol_data[symbol], -n))

get_latest_bars_values(symbol, val_type, n) ==
    LET bars_list == get_latest_bars(symbol, n) IN
    IF bars_list.outcome # "ok"
    THEN Raised("get_latest_bars_values", <<symbol, val_type, n>>, bars_list.outcome)
    ELSE Returned("get_latest_bars_values", <<symbol, val_type, n>>,
                  [i \in 1..Len(bars_list.value) |-> bars_list.value[i][2][val_type]])

(***************************************************************************)
(* Calls made by a direct caller of the data handler.                      *)
(***************************************************************************)
UpdateBars ==
    /\ Len(events) < MaxQueue
    /\ n_update_bars < MaxUpdateBars
    /\ update_bars
    /\ ret' = Returned("update_bars", None, None)
    /\ UNCHANGED <<portfolio_vars, fill_hist, loop_vars>>
    /\ UNCHANGED equity_curve

GetLatestBar ==
    /\ \E symbol \in AnySymbol : ret' = get_latest_bar(symbol)
    /\ UNCHANGED <<handler_vars, events, portfolio_vars, n_update_bars, fill_hist, loop_vars>>
    /\ UNCHANGED equity_curve

GetLatestBarDatetime ==
    /\ \E symbol \in AnySymbol : ret' = get_latest_bar_datetime(symbol)
    /\ UNCHANGED <<handler_vars, events, portfolio_vars, n_update_bars, fill_hist, loop_vars>>
    /\ UNCHANGED equity_curve

GetLatestBarValue ==
    /\ \E symbol \in AnySymbol, val_type \in ValTypes :
          ret' = get_latest_bar_value(symbol, val_type)
    /\ UNCHANGED <<handler_vars, events, portfolio_vars, n_update_bars, fill_hist, loop_vars>>
    /\ UNCHANGED equity_curve

GetLatestBars ==
    /\ \E symbol \in AnySymbol, n \in BarCounts : ret' = get_latest_bars(symbol, n)
    /\ UNCHANGED <<handler_vars, events, portfolio_vars, n_update_bars, fill_hist, loop_vars>>
    /\ UNCHANGED equity_curve

GetLatestBarsValues ==
    /\ \E symbol \in AnySymbol, val_type \in ValTypes, n \in BarCounts :
          ret' = get_latest_bars_values(symbol, val_type, n)
    /\ UNCHANGED <<handler_vars, events, portfolio_vars, n_update_bars, fill_hist, loop_vars>>
    /\ UNCHANGED equity_curve

(***************************************************************************)
(* portfolio.py: update_timeindex                                          *)
(***************************************************************************)
\* dp of update_timeindex: the current positions under the latest timestamp.
PositionsRecord(latest_datetime) ==
    [k \in Symbols \cup {"datetime"} |->
        IF k = "datetime" THEN latest_datetime ELSE current_positions[k]]

\* Mutant: positions are marked to the raw close.
market_value_close(s) == current_positions[s] * get_latest_bar_value(s, "close").value

\* market_value of update_timeindex for one symbol.
market_value(s) == current_positions[s] * get_latest_bar_value(s, "adj_close").value

RECURSIVE SumOver(_, _)
SumOver(f, keys) ==
    IF keys = {} THEN 0
    ELSE LET k == CHOOSE x \in keys : TRUE IN f[k] + SumOver(f, keys \ {k})

\* dh of update_timeindex: cash and commission copied, every symbol marked to
\* its latest adj_close, total = cash plus every market value.
HoldingsRecord(latest_datetime) ==
    LET mv == [s \in Symbols |-> market_value(s)] IN
    [k \in HoldingKeys \cup {"datetime"} |->
        CASE k = "datetime" -> latest_datetime
          [] k = "cash" -> current_holdings["cash"]
          [] k = "commission" -> current_holdings["commission"]
          [] k = "total" -> current_holdings["cash"] + SumOver(mv, Symbols)
          [] OTHER -> mv[k]]

\* Mutant: the new records replace the last ones instead of being appended.
update_timeindex_overwrite ==
    LET dt == get_latest_bar_datetime(symbol_list[1]) IN
    IF dt.outcome # "ok"
    THEN /\ ret' = Raised("update_timeindex", None, dt.outcome)
         /\ UNCHANGED <<all_positions, all_holdings>>
    ELSE /\ all_positions' = [all_positions EXCEPT ![Len(all_positions)] = PositionsRecord(dt.value)]
         /\ all_holdings' = [all_holdings EXCEPT ![Len(all_holdings)] = HoldingsRecord(dt.value)]
         /\ ret' = Returned("update_timeindex", None, None)

update_timeindex ==
    LET dt == get_latest_bar_datetime(symbol_list[1]) IN
    IF dt.outcome # "ok"
    THEN /\ ret' = Raised("update_timeindex", None, dt.outcome)
         /\ UNCHANGED <<all_positions, all_holdings>>
    ELSE /\ all_positions' = Append(all_positions, PositionsRecord(dt.value))
         /\ IF \E s \in Symbols : get_latest_bar_value(s, "adj_close").outcome # "ok"
            THEN /\ ret' = Raised("update_timeindex", None, "IndexError")
                 /\ UNCHANGED all_holdings
            ELSE /\ all_holdings' = Append(all_holdings, HoldingsRecord(dt.value))
                 /\ ret' = Returned("update_timeindex", None, None)

(***************************************************************************)
(* portfolio.py: update_fill                                               *)
(***************************************************************************)
fill_dir(direction) ==
    IF direction = "SELL" THEN -1 ELSE IF direction = "BUY" THEN 1 ELSE 0

update_positions_from_fill(fill) ==
    [current_positions EXCEPT ![fill.symbol] = @ + fill_dir(fill.direction) * fill.quantity]

\* Mutant: the cost of the fill is not booked on the symbol's holdings.
update_holdings_from_fill_unbooked(fill) ==
    LET fill_cost == get_latest_bar_value(fill.symbol, "adj_close").value
        cost == fill_dir(fill.direction) * fill_cost * fill.quantity
    IN [current_holdings EXCEPT
            !["commission"] = @ + fill.commission,
            !["cash"] = @ - (cost + fill.commission),
            !["total"] = @ - (cost + fill.commission)]

\* Mutant: the commission is recorded but not taken from cash.
update_holdings_from_fill_free(fill) ==
    LET fill_cost == get_latest_bar_value(fill.symbol, "adj_close").value
        cost == fill_dir(fill.direction) * fill_cost * fill.quantity
    IN [current_holdings EXCEPT
            ![fill.symbol] = @ + cost,
            !["commission"] = @ + fill.commission,
            !["cash"] = @ - cost,
            !["total"] = @ - cost]

\* Mutant: the commission is taken from cash but not from the total.
update_holdings_from_fill_gross_total(fill) ==
    LET fill_cost == get_latest_bar_value(fill.symbol, "adj_close").value
        cost == fill_dir(fill.direction) * fill_cost * fill.quantity
    IN [current_holdings EXCEPT
            ![fill.symbol] = @ + cost,
            !["commission"] = @ + fill.commission,
            !["cash"] = @ - (cost + fill.commission),
            !["total"] = @ - cost]

update_holdings_from_fill(fill) ==
    LET fill_cost == get_latest_bar_value(fill.symbol, "adj_close").value
        cost == fill_dir(fill.direction) * fill_cost * fill.quantity
    IN [current_holdings EXCEPT
            ![fill.symbol] = @ + cost,
            !["commission"] = @ + fill.commission,
            !["cash"] = @ - (cost + fill.commission),
            !["total"] = @ - (cost + fill.commission)]

\* Mutant: the test of the type tag is missing, so an order, which carries a
\* symbol, a direction and a quantity, is booked as a position before the
\* missing commission stops the call.
update_fill_untyped(event) ==
    IF event.type \in {"MARKET", "SIGNAL"}
    THEN /\ ret' = Raised("update_fill", event, "AttributeError")
         /\ UNCHANGED <<current_positions, current_holdings>>
    ELSE IF event.symbol \notin Symbols
    THEN /\ ret' = Raised("update_fill", event, "KeyError")
         /\ UNCHANGED <<current_positions, current_holdings>>
    ELSE /\ current_positions' = update_positions_from_fill(event)
         /\ LET px == get_latest_bar_value(event.symbol, "adj_close") IN
            IF px.outcome # "ok"
            THEN /\ ret' = Raised("update_fill", event, px.outcome)
                 /\ UNCHANGED current_holdings
            ELSE IF event.type # "FILL"
            THEN /\ ret' = Raised("update_fill", event, "AttributeError")
                 /\ UNCHANGED current_holdings
            ELSE /\ current_holdings' = update_holdings_from_fill(event)
                 /\ ret' = Returned("update_fill", event, None)

update_fill(event) ==
    IF event.type # "FILL"
    THEN /\ ret' = Returned("update_fill", event, None)
         /\ UNCHANGED <<current_positions, current_holdings>>
    ELSE IF event.symbol \notin Symbols
    THEN /\ ret' = Raised("update_fill", event, "KeyError")
         /\ UNCHANGED <<current_positions, current_holdings>>
    ELSE /\ current_positions' = update_positions_from_fill(event)
         /\ LET px == get_latest_bar_value(event.symbol, "adj_close") IN
            IF px.outcome # "ok"
            THEN /\ ret' = Raised("update_fill", event, px.outcome)
                 /\ UNCHANGED current_holdings
            ELSE /\ current_holdings' = update_holdings_from_fill(event)
                 /\ ret' = Returned("update_fill", event, None)

(***************************************************************************)
(* portfolio.py: generate_naive_order and update_signal                    *)
(***************************************************************************)
Abs(x) == IF x < 0 THEN -x ELSE x

\* Mutant: the exit order is sized with the fixed quantity, not the position.
generate_naive_order_fixed_exit(signal) ==
    LET symbol == signal.symbol
        direction == signal.direction
        cur_quantity == current_positions[symbol]
        order_type == "MKT"
    IN IF direction = "SELL" /\ cur_quantity > 0
       THEN OrderEvent(symbol, order_type, mkt_quantity, "SELL")
       ELSE IF direction = "BUY" /\ cur_quantity = 0
       THEN OrderEvent(symbol, order_type, mkt_quantity, "BUY")
       ELSE None

generate_naive_order(signal) ==
    LET symbol == signal.symbol
        direction == signal.direction
        cur_quantity == current_positions[symbol]
        order_type == "MKT"
    IN IF direction = "SELL" /\ cur_quantity > 0
       THEN OrderEvent(symbol, order_type, Abs(cur_quantity), "SELL")
       ELSE IF direction = "BUY" /\ cur_quantity = 0
       THEN OrderEvent(symbol, order_type, mkt_quantity, "BUY")
       ELSE None

update_signal(event) ==
    IF event.symbol \notin Symbols
    THEN /\ ret' = Raised("update_signal", event, "KeyError")
         /\ UNCHANGED events
    ELSE /\ events' = Append(events, generate_naive_order(event))
         /\ ret' = Returned("update_signal", event, None)

(***************************************************************************)
(* Calls made by a direct caller of the portfolio.                         *)
(***************************************************************************)
UpdateTimeindex ==
    /\ Len(all_holdings) < MaxRecords
    /\ update_timeindex
    /\ UNCHANGED <<handler_vars, events, current_positions, current_holdings,
                   n_update_bars, fill_hist, loop_vars>>
    /\ UNCHANGED equity_curve

IsEvent(e, type) == e # None /\ e.type = type

\* History of the fills: how many were passed in, what the last successful one
\* of each symbol was charged, and whether one has raised.
RecordFill(event) ==
    /\ n_fills' = n_fills + 1
    /\ fill_price' =
          IF IsEvent(event, "FILL") /\ ret'.outcome = "ok"
          THEN [fill_price EXCEPT
                   ![event.symbol] = get_latest_bar_value(event.symbol, "adj_close").value]
          ELSE fill_price
    /\ fills_failed' = (fills_failed \/ ret'.outcome # "ok")

FillInputs ==
    {FillEvent(0, symbol, "TSE", quantity, direction, quote.fill_cost, quote.commission) :
        symbol \in Symbols, quantity \in Quantities, direction \in Directions,
        quote \in FillQuotes}
    \cup {FillEvent(0, UnknownSymbol, "TSE", mkt_quantity, "BUY", 100, 0)}

\* Events of the other three types, which a caller may hand to update_fill.
NonFillInputs ==
    {MarketEvent, SignalEvent(1, "A", 0, "BUY"), OrderEvent("A", "MKT", mkt_quantity, "BUY")}

UpdateFill ==
    /\ n_fills < MaxFills
    /\ \E event \in FillInputs \cup NonFillInputs : update_fill(event) /\ RecordFill(event)
    /\ UNCHANGED <<handler_vars, events, all_positions, all_holdings,
                   n_update_bars, loop_vars>>
    /\ UNCHANGED equity_curve

SignalInputs ==
    {SignalEvent(1, symbol, 0, direction) : symbol \in AnySymbol, direction \in Directions}

GenerateNaiveOrder ==
    /\ \E signal \in SignalInputs :
          ret' = IF signal.symbol \notin Symbols
                 THEN Raised("generate_naive_order", signal, "KeyError")
                 ELSE Returned("generate_naive_order", signal, generate_naive_order(signal))
    /\ UNCHANGED <<handler_vars, events, portfolio_vars, n_update_bars, fill_hist, loop_vars>>
    /\ UNCHANGED equity_curve

UpdateSignal ==
    /\ Len(events) < MaxQueue
    /\ \E event \in SignalInputs : update_signal(event)
    /\ UNCHANGED <<handler_vars, portfolio_vars, n_update_bars, fill_hist, loop_vars>>
    /\ UNCHANGED equity_curve

\* The consumer end of the queue: events.get().
EventsGet ==
    /\ events # <<>>
    /\ events' = Tail(events)
    /\ ret' = Returned("events.get", None, Head(events))
    /\ UNCHANGED <<handler_vars, portfolio_vars, n_update_bars, fill_hist, loop_vars>>
    /\ UNCHANGED equity_curve

(***************************************************************************)
(* Spec: a caller of the data handler.                                     *)
(***************************************************************************)
Next ==
    \/ UpdateBars
    \/ GetLatestBar
    \/ GetLatestBarDatetime
    \/ GetLatestBarValue
    \/ GetLatestBars
    \/ GetLatestBarsValues
    \/ EventsGet

Spec == Init /\ [][Next]_vars

(***************************************************************************)
(* SpecLedger: a caller that feeds bars, fills and market snapshots to the *)
(* portfolio.                                                              *)
(***************************************************************************)
NextLedger ==
    \/ UpdateBars
    \/ UpdateFill
    \/ UpdateTimeindex

SpecLedger == Init /\ [][NextLedger]_vars

(***************************************************************************)
(* SpecOrders: a caller that feeds bars and fills to the portfolio and asks *)
(* it to size orders.                                                      *)
(***************************************************************************)
NextOrders ==
    \/ UpdateBars
    \/ UpdateFill
    \/ GenerateNaiveOrder

SpecOrders == Init /\ [][NextOrders]_vars

(***************************************************************************)
(* SpecSignals: a caller that feeds bars, fills and signals to the         *)
(* portfolio.                                                              *)
(***************************************************************************)
NextSignals ==
    \/ UpdateBars
    \/ UpdateFill
    \/ UpdateSignal

SpecSignals == Init /\ [][NextSignals]_vars

(***************************************************************************)
(* SpecFrame: a caller that feeds the bars of a one-day frame, events of    *)
(* every type and signals to the portfolio and has it record the bar.      *)
(***************************************************************************)
InitFrame == InitWith(Frames(1), "api", {None})

NextFrame ==
    \/ UpdateBars
    \/ UpdateFill
    \/ UpdateTimeindex
    \/ UpdateSignal

SpecFrame == InitFrame /\ [][NextFrame]_vars

(***************************************************************************)
(* SpecLoop: the backtest loop.  The driver, the strategy and the          *)
(* execution handler are collaborators of the package; they are modelled   *)
(* from the design description: advance the data handler, then drain the   *)
(* queue in FIFO order, dispatching each event to its subscriber.          *)
(***************************************************************************)
InitLoop == InitWith(DataSets \cup {ScenarioData}, "advance", {None})

Dispatched(event) == Append(trace, [cycle |-> n_update_bars, event |-> event])

\* One iteration starts: the data handler advances.  A driver may test
\* continue_backtest right after the call or at the top of the next iteration.
LoopAdvance ==
    /\ pc = "advance"
    /\ continue_backtest
    /\ update_bars
    /\ ret' = Returned("update_bars", None, None)
    /\ pc' \in IF continue_backtest' THEN {"drain"} ELSE {"drain", "done"}
    /\ UNCHANGED <<portfolio_vars, fill_hist, trace>>
    /\ UNCHANGED equity_curve

LoopExit ==
    /\ pc = "advance"
    /\ ~continue_backtest
    /\ pc' = "done"
    /\ UNCHANGED <<handler_vars, events, portfolio_vars, ret, n_update_bars, fill_hist, trace>>
    /\ UNCHANGED equity_curve

LoopGet ==
    /\ pc = "drain"
    /\ events # <<>>
    /\ events' = Tail(events)
    /\ ret' = Returned("events.get", None, Head(events))
    /\ pc' = "dispatch"
    /\ UNCHANGED <<handler_vars, portfolio_vars, n_update_bars, fill_hist, trace>>
    /\ UNCHANGED equity_curve

DrainEnd ==
    /\ pc = "drain"
    /\ events = <<>>
    /\ pc' = "advance"
    /\ UNCHANGED <<handler_vars, events, portfolio_vars, ret, n_update_bars, fill_hist, trace>>
    /\ UNCHANGED equity_curve

AfterCall == IF ret'.outcome = "ok" THEN "drain" ELSE "crashed"

\* Signals emitted so far: those dispatched and those still queued.
SignalsEmitted ==
    Cardinality({i \in 1..Len(trace) : IsEvent(trace[i].event, "SIGNAL")})
    + Cardinality({i \in 1..Len(events) : IsEvent(events[i], "SIGNAL")})

RECURSIVE SeqsUpTo(_, _)
SeqsUpTo(S, n) ==
    IF n = 0 THEN {<<>>}
    ELSE SeqsUpTo(S, n - 1) \cup {Append(q, x) : q \in SeqsUpTo(S, n - 1), x \in S}

\* What a strategy may put on the queue for the bar just observed.
StrategySignals ==
    IF latest_symbol_data[symbol_list[1]] = <<>> THEN {<<>>}
    ELSE SeqsUpTo({SignalEvent(1, symbol, get_latest_bar_datetime(symbol_list[1]).value, direction) :
                      symbol \in Symbols, direction \in Directions},
                  MaxSignals - SignalsEmitted)

\* MARKET goes to the strategy and to the portfolio.
DispatchMarket ==
    /\ pc = "dispatch"
    /\ IsEvent(ret.value, "MARKET")
    /\ \E signals \in StrategySignals : events' = events \o signals
    /\ update_timeindex
    /\ trace' = Dispatched(ret.value)
    /\ pc' = AfterCall
    /\ UNCHANGED <<handler_vars, current_positions, current_holdings, n_update_bars, fill_hist>>
    /\ UNCHANGED equity_curve

\* SIGNAL goes to the portfolio.
DispatchSignal ==
    /\ pc = "dispatch"
    /\ IsEvent(ret.value, "SIGNAL")
    /\ update_signal(ret.value)
    /\ trace' = Dispatched(ret.value)
    /\ pc' = AfterCall
    /\ UNCHANGED <<handler_vars, portfolio_vars, n_update_bars, fill_hist>>
    /\ UNCHANGED equity_curve

\* What the execution handler may answer to an order: one fill, or nothing.
ExecutionFills(order) ==
    {<<>>} \cup
    {<<FillEvent(get_latest_bar_datetime(symbol_list[1]).value, order.symbol, "TSE",
                 order.quantity, order.direction, quote.fill_cost, quote.commission)>> :
        quote \in FillQuotes}

\* ORDER goes to the execution handler.
DispatchOrder ==
    /\ pc = "dispatch"
    /\ IsEvent(ret.value, "ORDER")
    /\ \E fills \in ExecutionFills(ret.value) : events' = events \o fills
    /\ ret' = Returned("execute_order", ret.value, None)
    /\ trace' = Dispatched(ret.value)
    /\ pc' = "drain"
    /\ UNCHANGED <<handler_vars, portfolio_vars, n_update_bars, fill_hist>>
    /\ UNCHANGED equity_curve

\* FILL goes to the portfolio.
DispatchFill ==
    /\ pc = "dispatch"
    /\ IsEvent(ret.value, "FILL")
    /\ update_fill(ret.value)
    /\ RecordFill(ret.value)
    /\ trace' = Dispatched(ret.value)
    /\ pc' = AfterCall
    /\ UNCHANGED <<handler_vars, events, all_positions, all_holdings, n_update_bars>>
    /\ UNCHANGED equity_curve

\* An item that is no event has no subscriber.
DispatchNone ==
    /\ pc = "dispatch"
    /\ ret.value = None
    /\ ret' = Returned("skip", None, None)
    /\ trace' = Dispatched(None)
    /\ pc' = "drain"
    /\ UNCHANGED <<handler_vars, events, portfolio_vars, n_update_bars, fill_hist>>
    /\ UNCHANGED equity_curve

NextLoop ==
    \/ LoopAdvance
    \/ LoopExit
    \/ LoopGet
    \/ DrainEnd
    \/ DispatchMarket
    \/ DispatchSignal
    \/ DispatchOrder
    \/ DispatchFill
    \/ DispatchNone

SpecLoop == InitLoop /\ [][NextLoop]_vars

\* The loop is a sequential program: it keeps taking steps until it ends.
SpecLoopFair == SpecLoop /\ WF_vars(NextLoop)

(***************************************************************************)
(* SpecLoad: construction of the data handler, step by step.  The frames   *)
(* read by _open_csv_files are adjusted, then reindexed, then replayed.    *)
(* Prices are floats: here exact fractions <<numerator, denominator>> in   *)
(* lowest terms, with NaN the fraction 0/0.                                *)
(***************************************************************************)
RECURSIVE GCD(_, _)
GCD(a, b) == IF b = 0 THEN a ELSE GCD(b, a % b)

\* num / den in lowest terms with a denominator of 0 or more: x / 0 is
\* <<1, 0>> (inf) or <<-1, 0>> (-inf), and 0 / 0 is NaN.
Frac(num, den) ==
    LET g == GCD(Abs(num), Abs(den))
        sign == IF den < 0 THEN -1 ELSE 1
    IN IF g = 0 THEN <<0, 0>> ELSE <<(sign * num) \div g, (sign * den) \div g>>
Float(x) == Frac(x, 1)
NaN == <<0, 0>>
Mul(x, y) == Frac(x[1] * y[1], x[2] * y[2])
Div(x, y) == Frac(x[1] * y[2], x[2] * y[1])
Add(x, y) == Frac(x[1] * y[2] + y[1] * x[2], x[2] * y[2])
Sub(x, y) == Frac(x[1] * y[2] - y[1] * x[2], x[2] * y[2])
\* x < y as floats compare: false when either side is NaN.
Less(x, y) == x # NaN /\ y # NaN /\ x # y /\ x[1] * y[2] < y[1] * x[2]

\* Dates a loaded row can carry, all after start_date.
LoadDates == (start_date + 1)..(start_date + MaxDates)

RawClose(s, d) == IF s = "A" THEN (IF d % 2 = 1 THEN 100 ELSE 200) ELSE 100

RECURSIVE SortedSeq(_)
SortedSeq(S) ==
    IF S = {} THEN <<>>
    ELSE LET least == CHOOSE x \in S : \A y \in S : x <= y
         IN <<least>> \o SortedSeq(S \ {least})

\* The frame read for one symbol: a row on each of its trading dates, sorted.
\* On an ex date the "yesterday" reference is 50 instead of the previous close.
RawFrame(s, dates, ex) ==
    LET idx == SortedSeq(dates) IN
    [i \in 1..Len(idx) |->
        <<idx[i],
          [close |-> Float(RawClose(s, idx[i])),
           yesterday |-> IF i = 1 THEN Float(RawClose(s, idx[i]))
                         ELSE IF idx[i] \in ex THEN Float(50)
                         ELSE Float(RawClose(s, idx[i - 1]))]>>]

RawDataSets ==
    {[s \in Symbols |-> RawFrame(s, dates[s], ex)] :
        dates \in [Symbols -> SUBSET LoadDates], ex \in SUBSET LoadDates}

InitLoad == InitWith(RawDataSets, "opened", {None})

\* adj_index of _adjust_prices: the rows whose "yesterday" differs from the
\* close of the row before, in index order.
AdjIndex(frame) ==
    SelectSeq([i \in 1..Len(frame) |-> i],
              LAMBDA j : j > 1 /\ frame[j - 1][2].close # frame[j][2].yesterday)

\* adj_rates of _adjust_prices.
AdjRates(frame) ==
    LET adj_index == AdjIndex(frame) IN
    [k \in 1..Len(adj_index) |->
        Div(frame[adj_index[k]][2].yesterday, frame[adj_index[k] - 1][2].close)]

\* The "Adjusting" loop from its k-th pass on.  .loc[: adj_index[k]] and
\* [: adj_index[k]] slice by label: the row at adj_index[k] is included.
RECURSIVE Adjusting(_, _, _, _)
Adjusting(adj_close, adj_index, adj_rates, k) ==
    IF k > Len(adj_index) THEN adj_close
    ELSE Adjusting([b \in 1..Len(adj_close) |->
                       IF b <= adj_index[k] THEN Mul(adj_close[b], adj_rates[k])
                       ELSE adj_close[b]],
                   adj_index, adj_rates, k + 1)

_adjust_prices(frame) ==
    LET adj_close == Adjusting([b \in 1..Len(frame) |-> frame[b][2].close],
                               AdjIndex(frame), AdjRates(frame), 1)
    IN [b \in 1..Len(frame) |->
           <<frame[b][1],
             [close |-> frame[b][2].close, yesterday |-> frame[b][2].yesterday,
              adj_close |-> adj_close[b]]>>]

AdjustPrices ==
    /\ pc = "opened"
    /\ symbol_data' = [s \in Symbols |-> _adjust_prices(symbol_data[s])]
    /\ ret' = Returned("_adjust_prices", None, None)
    /\ pc' = "adjusted"
    /\ UNCHANGED <<cursor, latest_symbol_data, continue_backtest, events, portfolio_vars,
                   n_update_bars, fill_hist, trace>>
    /\ UNCHANGED equity_curve

Index(frame) == [i \in 1..Len(frame) |-> frame[i][1]]

\* comb_index of _reindex: the index of the first symbol.  The union with the
\* index of each later symbol is computed and its result dropped.
comb_index == Index(symbol_data[symbol_list[1]])

NaNRow == [close |-> NaN, yesterday |-> NaN, adj_close |-> NaN]

\* reindex(index=..., method='pad'): at each label the row of the frame with
\* the greatest label not after it, or a row of NaN if there is none.
Pad(frame, label) ==
    LET known == {i \in 1..Len(frame) : frame[i][1] <= label} IN
    IF known = {} THEN NaNRow
    ELSE frame[CHOOSE i \in known : \A j \in known : j <= i][2]

_reindex(frame, index) == [i \in 1..Len(index) |-> <<index[i], Pad(frame, index[i])>>]

Reindex ==
    /\ pc = "adjusted"
    /\ latest_symbol_data' = [s \in Symbols |-> <<>>]
    /\ symbol_data' = [s \in Symbols |-> _reindex(symbol_data[s], comb_index)]
    /\ cursor' = [s \in Symbols |-> 0]
    /\ ret' = Returned("_reindex", None, None)
    /\ pc' = "api"
    /\ UNCHANGED <<continue_backtest, events, portfolio_vars, n_update_bars, fill_hist, trace>>
    /\ UNCHANGED equity_curve

\* The constructed handler replays its frames.
ReplayBars ==
    /\ pc = "api"
    /\ n_update_bars < MaxUpdateBars
    /\ update_bars
    /\ ret' = Returned("update_bars", None, None)
    /\ UNCHANGED <<portfolio_vars, fill_hist, loop_vars>>
    /\ UNCHANGED equity_curve

NextLoad ==
    \/ AdjustPrices
    \/ Reindex
    \/ ReplayBars

SpecLoad == InitLoad /\ [][NextLoad]_vars

(***************************************************************************)
(* performance.py and Portfolio.output_summary_stats.  SpecStats: a caller *)
(* that computes the statistics of an equity curve frame.                  *)
(***************************************************************************)
\* Period returns are counted in units of the daily risk free rate 0.25 / 252.
daily_risk_free_rate == Float(1)
ReturnValues == {Float(0), Float(1), Float(2)}
PnlValues == {Float(-1), Float(1), Float(2)}

\* The frames the statistics are computed from: a returns column and an
\* equity_curve column on one index.
EquityCurves ==
    UNION {{[returns |-> r, equity_curve |-> e] :
               r \in [1..n -> ReturnValues], e \in [1..n -> PnlValues]} : n \in 0..MaxCurve}

InitStats == InitWith(Frames(0), "api", EquityCurves)

RECURSIVE Sum(_)
Sum(xs) == IF xs = <<>> THEN Float(0) ELSE Add(Head(xs), Sum(Tail(xs)))

\* np.mean: NaN for an empty series.
Mean(xs) == Div(Sum(xs), Float(Len(xs)))

\* The square of np.std: the mean squared deviation from the mean.
Variance(xs) ==
    LET mean == Mean(xs) IN
    Mean([i \in 1..Len(xs) |-> Mul(Sub(xs[i], mean), Sub(xs[i], mean))])

\* The float sqrt(periods) * mean / std, kept exactly as sign(x) * x * x: the
\* division by a zero std gives inf, -inf or NaN and raises nothing.
create_sharpe_ratio(returns, periods) ==
    LET mean == Mean(returns)
        square == Div(Mul(Float(periods), Mul(mean, mean)), Variance(returns))
    IN Returned("create_sharpe_ratio", <<returns, periods>>,
                IF mean[1] < 0 THEN Sub(Float(0), square) ELSE square)

\* Python's max(x, y): y if x < y, else x.
Max2(x, y) == IF Less(x, y) THEN y ELSE x

\* hwm[t] of create_drawdown; t counts from 0, pnl[t] is the model's pnl[t + 1].
RECURSIVE hwm(_, _)
hwm(pnl, t) == IF t = 0 THEN Float(0) ELSE Max2(hwm(pnl, t - 1), pnl[t + 1])

\* The drawdown series: created without values, filled from t = 1 on.
DrawdownSeries(pnl) ==
    [i \in 1..Len(pnl) |-> IF i = 1 THEN NaN ELSE Sub(hwm(pnl, i - 1), pnl[i])]

\* duration[t] of create_drawdown, t counting from 0.
RECURSIVE DurationAt(_, _)
DurationAt(drawdown, t) ==
    IF t = 0 THEN NaN
    ELSE IF drawdown[t + 1] = Float(0) THEN Float(0)
    ELSE Add(DurationAt(drawdown, t - 1), Float(1))

DurationSeries(drawdown) == [i \in 1..Len(drawdown) |-> DurationAt(drawdown, i - 1)]

\* Series.max(): the greatest value that is not NaN, NaN if there is none.
SeriesMax(series) ==
    LET values == {series[i] : i \in 1..Len(series)} \ {NaN} IN
    IF values = {} THEN NaN
    ELSE CHOOSE x \in values : \A y \in values : ~Less(x, y)

create_drawdown(pnl) ==
    LET drawdown == DrawdownSeries(pnl)
        duration == DurationSeries(drawdown)
    IN Returned("create_drawdown", pnl,
                [drawdown |-> drawdown, max_dd |-> SeriesMax(drawdown),
                 dd_duration |-> SeriesMax(duration)])

CreateSharpeRatio ==
    /\ ret' = create_sharpe_ratio(equity_curve.returns, 252)
    /\ UNCHANGED <<handler_vars, events, portfolio_vars, equity_curve, n_update_bars,
                   fill_hist, loop_vars>>

CreateDrawdown ==
    /\ ret' = create_drawdown(equity_curve.equity_curve)
    /\ UNCHANGED <<handler_vars, events, portfolio_vars, equity_curve, n_update_bars,
                   fill_hist, loop_vars>>

\* output_summary_stats up to its return: the last equity value is read first
\* (IndexError on an empty frame), the drawdown column is stored before the
\* report is formatted, and "%d" of a NaN duration raises ValueError.
OutputSummaryStats ==
    LET returns == equity_curve.returns
        pnl == equity_curve.equity_curve
        excess == [i \in 1..Len(returns) |-> Sub(returns[i], daily_risk_free_rate)]
        sharpe_ratio == create_sharpe_ratio(excess, 252)
        dd == create_drawdown(pnl).value
    IN /\ IF pnl = <<>>
          THEN /\ ret' = Raised("output_summary_stats", None, "IndexError")
               /\ UNCHANGED equity_curve
          ELSE IF sharpe_ratio.outcome # "ok"
          THEN /\ ret' = Raised("output_summary_stats", None, sharpe_ratio.outcome)
               /\ UNCHANGED equity_curve
          ELSE /\ equity_curve' = [returns |-> returns, equity_curve |-> pnl,
                                   drawdown |-> dd.drawdown]
               /\ ret' = IF dd.dd_duration = NaN
                         THEN Raised("output_summary_stats", None, "ValueError")
                         ELSE Returned("output_summary_stats", None,
                                       [total_return |-> Mul(Sub(Last(pnl), Float(1)), Float(100)),
                                        sharpe_ratio |-> sharpe_ratio.value,
                                        max_dd |-> Mul(dd.max_dd, Float(100)),
                                        dd_duration |-> dd.dd_duration])
       /\ UNCHANGED <<handler_vars, events, portfolio_vars, n_update_bars, fill_hist, loop_vars>>

NextStats ==
    \/ CreateSharpeRatio
    \/ CreateDrawdown
    \/ OutputSummaryStats

SpecStats == InitStats /\ [][NextStats]_vars

(***************************************************************************)
(* SpecEvents: a caller that constructs events.                            *)
(***************************************************************************)
StrategyIds == {1, 123}
Datetimes == {start_date, start_date + 1}
OrderTypes == {"MKT", "LMT"}
OrderQuantities == {0, mkt_quantity, 5000}

NewMarketEvent ==
    /\ ret' = Returned("MarketEvent", <<>>, MarketEvent)
    /\ UNCHANGED <<handler_vars, events, portfolio_vars, equity_curve, n_update_bars,
                   fill_hist, loop_vars>>

NewSignalEvent ==
    /\ \E strategy_id \in StrategyIds, symbol \in AnySymbol, datetime \in Datetimes,
          direction \in Directions :
          ret' = Returned("SignalEvent", <<strategy_id, symbol, datetime, direction>>,
                          SignalEvent(strategy_id, symbol, datetime, direction))
    /\ UNCHANGED <<handler_vars, events, portfolio_vars, equity_curve, n_update_bars,
                   fill_hist, loop_vars>>

NewOrderEvent ==
    /\ \E symbol \in AnySymbol, order_type \in OrderTypes, quantity \in OrderQuantities,
          direction \in Directions :
          ret' = Returned("OrderEvent", <<symbol, order_type, quantity, direction>>,
                          OrderEvent(symbol, order_type, quantity, direction))
    /\ UNCHANGED <<handler_vars, events, portfolio_vars, equity_curve, n_update_bars,
                   fill_hist, loop_vars>>

NewFillEvent ==
    /\ \E datetime \in Datetimes, symbol \in AnySymbol, quantity \in OrderQuantities,
          direction \in Directions, quote \in FillQuotes :
          ret' = Returned("FillEvent",
                          <<datetime, symbol, "TSE", quantity, direction,
                            quote.fill_cost, quote.commission>>,
                          FillEvent(datetime, symbol, "TSE", quantity, direction,
                                    quote.fill_cost, quote.commission))
    /\ UNCHANGED <<handler_vars, events, portfolio_vars, equity_curve, n_update_bars,
                   fill_hist, loop_vars>>

NextEvents ==
    \/ NewMarketEvent
    \/ NewSignalEvent
    \/ NewOrderEvent
    \/ NewFillEvent

InitEvents == InitWith(Frames(0), "api", {None})

SpecEvents == InitEvents /\ [][NextEvents]_vars

(***************************************************************************)
(* Properties.                                                             *)
(***************************************************************************)
Timestamp(bar) == bar[1]
Min(a, b) == IF a < b THEN a ELSE b

\* C1 (Spec): no look-ahead.  After k calls of update_bars that each found
\* data, the observed history of every symbol is exactly the first k bars of
\* its frame, in frame order and with non-decreasing timestamps, and
\* get_latest_bar returns the k-th bar.
C1_NoLookAhead ==
    \A s \in Symbols :
        LET k == Min(n_update_bars, Len(symbol_data[s]))
            seen == latest_symbol_data[s]
        IN /\ Len(seen) = k
           /\ \A i \in 1..k : seen[i] = symbol_data[s][i]
           /\ \A i \in 1..(k - 1) : Timestamp(seen[i]) <= Timestamp(seen[i + 1])
           /\ (ret.op = "get_latest_bar" /\ ret.arg = s /\ k >= 1)
                 => (ret.outcome = "ok" /\ ret.value = symbol_data[s][k])

C1_Witness ==
    /\ n_update_bars = 2
    /\ Len(symbol_data["B"]) = 2
    /\ ret.op = "get_latest_bar" /\ ret.arg = "B" /\ ret.outcome = "ok"
    /\ ret.value = symbol_data["B"][2]
    /\ ret.value # symbol_data["B"][1]

\* C10 (Spec): lookup errors.  The latest-bar accessors raise one error for a
\* symbol that was never registered and a different one for a registered
\* symbol without an observed bar; no value is returned with either, and an
\* accessor call changes neither the handler's data nor the event queue.
Accessors == {"get_latest_bar", "get_latest_bar_datetime", "get_latest_bar_value"}
UnknownInstrument == "KeyError"
NoDataYet == "IndexError"
AccessedSymbol(r) == IF r.op = "get_latest_bar_value" THEN r.arg[1] ELSE r.arg

C10_LookupErrorOutcome ==
    ret.op \in Accessors =>
        LET s == AccessedSymbol(ret) IN
        /\ s \notin Symbols => (ret.outcome = UnknownInstrument /\ ret.value = None)
        /\ (s \in Symbols /\ latest_symbol_data[s] = <<>>)
              => (ret.outcome = NoDataYet /\ ret.value = None)
        /\ UnknownInstrument # NoDataYet

FillStep == n_fills' = n_fills + 1
Cash == current_holdings["cash"]
LatestAdjClose(s) == Last(latest_symbol_data[s])[2].adj_close

\* C2 (SpecLedger): a processed FillEvent moves the position by
\* dir * quantity, cash and total by -(dir * fill_cost * quantity + commission)
\* and the cumulative commission by the commission, where fill_cost is the
\* price the FillEvent carries.
C2_FillUsesEventPrice ==
    [][(FillStep /\ IsEvent(ret'.arg, "FILL") /\ ret'.outcome = "ok") =>
        LET fill == ret'.arg
            dir == IF fill.direction = "BUY" THEN 1 ELSE -1
            amount == dir * fill.fill_cost * fill.quantity + fill.commission
        IN /\ current_positions' =
                 [current_positions EXCEPT ![fill.symbol] = @ + dir * fill.quantity]
           /\ current_holdings'["cash"] = current_holdings["cash"] - amount
           /\ current_holdings'["commission"] = current_holdings["commission"] + fill.commission
           /\ current_holdings'["total"] = current_holdings["total"] - amount]_vars

\* C3 (SpecLedger): fill processing is atomic.  A call of update_fill applies
\* the position update and the holdings update together or, when it fails,
\* neither of them.
C3_FillAtomic ==
    [][FillStep =>
        LET position_applied == current_positions' # current_positions
            holdings_applied == current_holdings' # current_holdings
        IN /\ position_applied <=> holdings_applied
           /\ ret'.outcome # "ok" => ~position_applied]_vars

\* C5 as stated (SpecLedger): after fills that all carry zero commission and
\* were all processed, cash + sum of position[i] * fill_price[i] is the initial
\* capital, fill_price[i] being the price the ledger charged for i's last fill.
C5_ConservationAtFillPrice ==
    (current_holdings["commission"] = 0 /\ ~fills_failed) =>
        Cash + SumOver([s \in Symbols |-> current_positions[s] * fill_price[s]], Symbols)
            = initial_capital

\* C5 amended (SpecLedger): after any sequence of fills that all carry zero
\* commission, cash + sum over the symbols of current_holdings[i] is the
\* initial capital, current_holdings[i] being the running sum of
\* dir * charged price * quantity over i's fills.
C5_ConservationOfCost ==
    current_holdings["commission"] = 0 =>
        Cash + SumOver(current_holdings, Symbols) = initial_capital

C5_Witness ==
    /\ n_fills = 2
    /\ current_holdings["commission"] = 0
    /\ current_positions["A"] = 2 * mkt_quantity
    /\ current_holdings["A"] = mkt_quantity * 100 + mkt_quantity * 110
    /\ Cash = initial_capital - mkt_quantity * 210

\* C6 (SpecLedger): shape of the histories.  Record 0 of the holdings history
\* holds the initial capital as cash and total, no commission and value 0 for
\* every symbol; a successful update_timeindex appends exactly one positions
\* record and one holdings record, stamped with the latest bar time, the
\* holdings record marking every position to the latest adj_close with
\* total = cash + sum of the values; appended records never change.
C6_InitialRecord ==
    /\ all_holdings[1]["cash"] = initial_capital
    /\ all_holdings[1]["total"] = initial_capital
    /\ all_holdings[1]["commission"] = 0
    /\ \A s \in Symbols : all_holdings[1][s] = 0

C6_AppendedRecords ==
    LET h == Last(all_holdings')
        p == Last(all_positions')
    IN /\ all_holdings' = Append(all_holdings, h)
       /\ all_positions' = Append(all_positions, p)
       /\ \A s \in Symbols :
             /\ h["datetime"] = Timestamp(Last(latest_symbol_data[s]))
             /\ p["datetime"] = Timestamp(Last(latest_symbol_data[s]))
             /\ p[s] = current_positions[s]
             /\ h[s] = current_positions[s] * LatestAdjClose(s)
       /\ h["cash"] = Cash
       /\ h["commission"] = current_holdings["commission"]
       /\ h["total"] = Cash + SumOver([s \in Symbols |-> h[s]], Symbols)

C6_HistoryShape ==
    /\ []C6_InitialRecord
    /\ [][(all_holdings' # all_holdings \/ all_positions' # all_positions)
            => C6_AppendedRecords]_vars
    /\ [][(ret'.op = "update_timeindex" /\ ret'.outcome = "ok" /\ ret' # ret)
            => C6_AppendedRecords]_vars

C6_Witness ==
    /\ Len(all_holdings) = 2
    /\ current_positions["B"] = mkt_quantity
    /\ current_positions["A"] = mkt_quantity
    /\ all_holdings[2]["datetime"] = 1
    /\ all_holdings[2]["B"] = mkt_quantity * 50
    /\ all_holdings[2]["A"] = mkt_quantity * 100
    /\ all_holdings[2]["total"] = Cash + mkt_quantity * 150
    /\ Last(latest_symbol_data["B"])[2].close = 100

(***************************************************************************)
(* Properties of the order policy.                                         *)
(***************************************************************************)
\* C4 (SpecOrders): naive order policy.  A BUY signal on a flat symbol yields
\* one market BUY order of the fixed quantity, a SELL signal on a long symbol
\* one market SELL order of the whole position, every other combination of
\* direction and position yields no order.
C4_NaivePolicy ==
    (ret.op = "generate_naive_order" /\ ret.outcome = "ok") =>
        LET s == ret.arg.symbol
            direction == ret.arg.direction
            position == current_positions[s]
        IN IF direction = "BUY" /\ position = 0
           THEN ret.value = [type |-> "ORDER", symbol |-> s, order_type |-> "MKT",
                             quantity |-> mkt_quantity, direction |-> "BUY"]
           ELSE IF direction = "SELL" /\ position > 0
           THEN ret.value = [type |-> "ORDER", symbol |-> s, order_type |-> "MKT",
                             quantity |-> position, direction |-> "SELL"]
           ELSE ret.value = None

C4_Witness ==
    /\ ret.op = "generate_naive_order"
    /\ ret.arg.direction = "SELL"
    /\ ret.arg.symbol \in Symbols
    /\ current_positions[ret.arg.symbol] = 2 * mkt_quantity
    /\ ret.value # None
    /\ ret.value.quantity = 2 * mkt_quantity

(***************************************************************************)
(* Properties of the backtest loop.                                        *)
(***************************************************************************)
Rows == Len(symbol_data[symbol_list[1]])
BarTime(c) == Timestamp(symbol_data[symbol_list[1]][Min(c, Rows)])
TraceOf(type) == {i \in 1..Len(trace) : IsEvent(trace[i].event, type)}

\* C7 (SpecLoop): ordering within a bar cycle.  A SignalEvent is handled only
\* after the MarketEvent of its bar was processed and the holdings record of
\* that bar appended; an OrderEvent is dispatched after the SignalEvent it
\* comes from and a FillEvent applied after its OrderEvent, all in the cycle
\* of their bar; the queue is empty at every advance.
C7_TraceOrdered ==
    \A j \in 1..Len(trace) :
        LET e == trace[j].event
            c == trace[j].cycle
            Before(type) == {i \in TraceOf(type) : i < j /\ trace[i].cycle = c}
        IN /\ \A i \in 1..(j - 1) : trace[i].cycle <= c
           /\ IsEvent(e, "SIGNAL") => (Before("MARKET") # {} /\ e.datetime = BarTime(c))
           /\ IsEvent(e, "ORDER") =>
                 \E i \in Before("SIGNAL") :
                     /\ trace[i].event.symbol = e.symbol
                     /\ trace[i].event.direction = e.direction
           /\ IsEvent(e, "FILL") =>
                 /\ e.datetime = BarTime(c)
                 /\ \E i \in Before("ORDER") :
                       /\ trace[i].event.symbol = e.symbol
                       /\ trace[i].event.direction = e.direction
                       /\ trace[i].event.quantity = e.quantity

C7_MarkedBeforeSignal ==
    (trace' # trace /\ IsEvent(Last(trace').event, "SIGNAL")) =>
        /\ Len(all_holdings) = n_update_bars + 1
        /\ Last(all_holdings)["datetime"] = Last(trace').event.datetime

C7_Ordering ==
    /\ []C7_TraceOrdered
    /\ [][C7_MarkedBeforeSignal]_vars
    /\ [](pc = "advance" => events = <<>>)

C7_Witness ==
    /\ Len(trace) >= 5
    /\ IsEvent(trace[1].event, "MARKET")
    /\ IsEvent(trace[2].event, "SIGNAL")
    /\ IsEvent(trace[3].event, "ORDER")
    /\ IsEvent(trace[4].event, "FILL")
    /\ trace[4].cycle = 1
    /\ IsEvent(trace[5].event, "MARKET")
    /\ trace[5].cycle = 2

\* C8 (SpecLoopFair): exhaustion and termination.  With N rows in the frame,
\* each of the first N calls of update_bars appends a bar and leaves
\* continue_backtest true; the call that finds the source exhausted clears it;
\* once cleared it is never set again, and the loop ends.
C8_Exhaustion ==
    \A s \in Symbols :
        LET N == Len(symbol_data[s]) IN
        /\ n_update_bars <= N =>
              (continue_backtest /\ Len(latest_symbol_data[s]) = n_update_bars)
        /\ n_update_bars > N => (~continue_backtest /\ n_update_bars = N + 1)

C8_Termination ==
    /\ []C8_Exhaustion
    /\ [][~continue_backtest => ~continue_backtest']_vars
    /\ <>(pc \in {"done", "crashed"})

C8_Witness ==
    /\ pc = "done"
    /\ Rows = 2
    /\ n_update_bars = 3
    /\ ~continue_backtest
    /\ Len(latest_symbol_data["A"]) = 2

\* C9 (SpecLoop): the five-day scenario.  With closes A = 100, 101, 99, 105,
\* 110 and B = 50, 50, 52, 49, 48, one BUY signal for A on day 1 and its order
\* filled in that cycle, after day 5 the position of A is the fixed quantity,
\* the position of B is 0, cash is the initial capital less 100 times the
\* fixed quantity less the commission, and the holdings record of day 5 has
\* total = cash + 110 times the fixed quantity.
C9_Case ==
    /\ symbol_data = ScenarioData
    /\ n_update_bars > 5 \/ (n_update_bars = 5 /\ pc = "advance")
    /\ \A i \in 1..Len(events) : ~IsEvent(events[i], "SIGNAL")
    /\ \E i \in TraceOf("SIGNAL") :
          /\ TraceOf("SIGNAL") = {i}
          /\ trace[i].cycle = 1
          /\ trace[i].event.symbol = "A"
          /\ trace[i].event.direction = "BUY"
    /\ \E j \in TraceOf("FILL") : TraceOf("FILL") = {j} /\ trace[j].cycle = 1

C9_Scenario ==
    C9_Case =>
        LET commission == trace[CHOOSE j \in TraceOf("FILL") : TRUE].event.commission
            day5 == {i \in 1..Len(all_holdings) : all_holdings[i]["datetime"] = 5}
        IN /\ current_positions["A"] = mkt_quantity
           /\ current_positions["B"] = 0
           /\ Cash = initial_capital - mkt_quantity * 100 - commission
           /\ day5 # {}
           /\ \A i \in day5 : all_holdings[i]["total"] = Cash + mkt_quantity * 110

C9_Witness ==
    /\ C9_Case
    /\ pc = "done"
    /\ current_holdings["commission"] = 5

\* C11 (Spec): get_latest_bars(symbol, n) of a registered symbol with h
\* observed bars returns, without raising, exactly the last min(n, h) bars in
\* observation order: never more than n bars, none when n = 0 or h = 0; and
\* get_latest_bars_values returns the requested field of those same bars.
LastBars(symbol, n) ==
    LET seen == latest_symbol_data[symbol]
        h == Len(seen)
    IN SubSeq(seen, h - Min(n, h) + 1, h)

C11_LastBars ==
    /\ (ret.op = "get_latest_bars" /\ ret.arg[1] \in Symbols)
          => /\ ret.outcome = "ok"
             /\ ret.value = LastBars(ret.arg[1], ret.arg[2])
             /\ Len(ret.value) <= ret.arg[2]
    /\ (ret.op = "get_latest_bars_values" /\ ret.arg[1] \in Symbols)
          => /\ ret.outcome = "ok"
             /\ ret.value = [i \in 1..Len(LastBars(ret.arg[1], ret.arg[3])) |->
                                LastBars(ret.arg[1], ret.arg[3])[i][2][ret.arg[2]]]

\* C14 (Spec): a MarketEvent means a new bar.  Every call of update_bars puts
\* at most one MarketEvent on the queue; a call that puts one there has
\* appended exactly one bar to the history of every symbol, and a call that
\* appends no bar puts nothing on the queue.
UpdateBarsStep == n_update_bars' = n_update_bars + 1
MarketEventsQueued == Cardinality({i \in 1..Len(events) : IsEvent(events[i], "MARKET")})

C14_MarketEventMeansNewBar ==
    [][UpdateBarsStep =>
          /\ MarketEventsQueued' <= MarketEventsQueued + 1
          /\ (MarketEventsQueued' = MarketEventsQueued + 1) =>
                \A s \in Symbols :
                    Len(latest_symbol_data'[s]) = Len(latest_symbol_data[s]) + 1]_vars

\* C12 (SpecLoad): price adjustment.  After _adjust_prices, the adj_close of
\* every row b is its close times the factor yesterday[j] / close[j-1] of
\* every discontinuity j strictly after b; the row at a discontinuity does
\* not carry that discontinuity's own factor, and a frame without
\* discontinuity has adj_close = close on every row.
IsDiscontinuity(frame, j) == j > 1 /\ frame[j - 1][2].close # frame[j][2].yesterday

RECURSIVE FactorsAfter(_, _)
FactorsAfter(frame, b) ==
    IF b >= Len(frame) THEN Float(1)
    ELSE IF IsDiscontinuity(frame, b + 1)
         THEN Mul(Div(frame[b + 1][2].yesterday, frame[b][2].close), FactorsAfter(frame, b + 1))
         ELSE FactorsAfter(frame, b + 1)

C12_AdjustedBeforeDiscontinuity ==
    pc = "adjusted" =>
        \A s \in Symbols : \A b \in 1..Len(symbol_data[s]) :
            symbol_data[s][b][2].adj_close =
                Mul(symbol_data[s][b][2].close, FactorsAfter(symbol_data[s], b))

\* C13 (SpecLoad): timestamp alignment.  _reindex puts every symbol on the
\* union of the native timestamps of all symbols, so a timestamp that only a
\* later symbol of symbol_list trades on is still a row of the replayed
\* frames; at a timestamp a symbol has no row of its own it shows its last
\* known row.
NativeDates(frame) == {frame[i][1] : i \in 1..Len(frame)}
UnionIndex == SortedSeq(UNION {NativeDates(symbol_data[s]) : s \in Symbols})
ReindexStep == pc = "adjusted" /\ pc' = "api"

C13_AlignedOnUnion ==
    [][ReindexStep =>
          \A s \in Symbols :
              /\ Index(symbol_data'[s]) = UnionIndex
              /\ \A i \in 1..Len(symbol_data'[s]) :
                    \A j \in 1..Len(symbol_data[s]) :
                        (/\ symbol_data[s][j][1] <= symbol_data'[s][i][1]
                         /\ \A k \in (j + 1)..Len(symbol_data[s]) :
                               symbol_data[s][k][1] > symbol_data'[s][i][1])
                           => symbol_data'[s][i][2] = symbol_data[s][j][2]]_vars

\* C15 (SpecStats): drawdown non-negativity.  For every series and every
\* index t of it, the drawdown returned by create_drawdown is a number, it is
\* not negative, and it is 0 wherever the series stands at its running
\* high-water-mark.
RECURSIVE HighWater(_, _)
HighWater(series, i) ==
    IF i = 0 THEN Float(0) ELSE Max2(HighWater(series, i - 1), series[i])

C15_DrawdownNonNegative ==
    ret.op = "create_drawdown" =>
        \A i \in 1..Len(ret.arg) :
            /\ ret.value.drawdown[i] # NaN
            /\ ~Less(ret.value.drawdown[i], Float(0))
            /\ (ret.arg[i] = HighWater(ret.arg, i)) => ret.value.drawdown[i] = Float(0)

\* C16 (SpecStats): drawdown reference.  The high-water-mark starts at 0 and
\* takes in every value of the series from the first on:
\* highwater(t) = max(0, series(0), ..., series(t)); the drawdown at every
\* index is highwater(t) - series(t) and the returned maximum is the greatest
\* of these drawdowns.
ReferenceDrawdown(series) ==
    [i \in 1..Len(series) |-> Sub(HighWater(series, i), series[i])]

C16_DrawdownReference ==
    ret.op = "create_drawdown" =>
        /\ ret.value.drawdown = ReferenceDrawdown(ret.arg)
        /\ ret.arg # <<>> => ret.value.max_dd = SeriesMax(ReferenceDrawdown(ret.arg))

\* C17 (SpecStats): a return series of zero variance makes create_sharpe_ratio
\* end in the DegenerateSeries error, never in a value, and
\* output_summary_stats passes that error on to its caller.
DegenerateSeries == "DegenerateSeries"
ZeroVariance(returns) == returns # <<>> /\ Variance(returns) = Float(0)

C17_DegenerateSeries ==
    /\ (ret.op = "create_sharpe_ratio" /\ ZeroVariance(ret.arg[1]))
          => ret.outcome = DegenerateSeries
    /\ (ret.op = "output_summary_stats" /\ ZeroVariance(equity_curve.returns))
          => ret.outcome = DegenerateSeries

\* C18 (SpecEvents): every constructed event carries the tag of its variant,
\* MARKET, SIGNAL, ORDER or FILL, whatever the constructor arguments, and no
\* two variants carry the same tag.
TagOf ==
    [variant \in {"MarketEvent", "SignalEvent", "OrderEvent", "FillEvent"} |->
        CASE variant = "MarketEvent" -> "MARKET"
          [] variant = "SignalEvent" -> "SIGNAL"
          [] variant = "OrderEvent" -> "ORDER"
          [] variant = "FillEvent" -> "FILL"]

C18_EventTags ==
    ret.op \in DOMAIN TagOf =>
        \A variant \in DOMAIN TagOf : (ret.value.type = TagOf[variant]) <=> (ret.op = variant)

C18_Witness ==
    /\ ret.op = "FillEvent"
    /\ ret.arg = <<start_date + 1, UnknownSymbol, "TSE", 5000, "SELL", 105, 5>>
    /\ ret.value.type = "FILL"
    /\ ret.value.quantity = 5000

\* C19 (SpecSignals): what update_signal puts on the queue.  Every item on the
\* event queue is a Market, Signal, Order or Fill event, and every order on it
\* has a quantity of 0 or more and the direction BUY or SELL; a signal the
\* sizing policy answers with no order leaves nothing on the queue.
EventTags == {"MARKET", "SIGNAL", "ORDER", "FILL"}

C19_QueueHoldsEvents ==
    \A i \in 1..Len(events) :
        /\ events[i] # None
        /\ events[i].type \in EventTags
        /\ events[i].type = "ORDER" =>
              (events[i].quantity >= 0 /\ events[i].direction \in Directions)

\* C20 (SpecLoop): no shorting or scaling.  In a run where every order of the
\* naive policy dispatched so far was answered by one fill of its quantity and
\* direction, and no call has failed, the position of every symbol is 0 or
\* the fixed quantity, however many signals the strategy emits per cycle.
InTrace(type) == Cardinality({i \in 1..Len(trace) : IsEvent(trace[i].event, type)})
OnQueue(type) == Cardinality({i \in 1..Len(events) : IsEvent(events[i], type)})
Pending(type) == IF pc = "dispatch" /\ IsEvent(ret.value, type) THEN 1 ELSE 0
EveryOrderFilledOnce ==
    /\ InTrace("ORDER") = InTrace("FILL") + OnQueue("FILL") + Pending("FILL")
    /\ ~fills_failed
    /\ pc # "crashed"

C20_NoShortingOrScaling ==
    EveryOrderFilledOnce =>
        \A s \in Symbols : current_positions[s] \in {0, mkt_quantity}

\* C23 (SpecLedger): accounting invariant of the current holdings.  Whatever
\* fills were processed, BUY or SELL and with any commission, the cash, the
\* holdings of all symbols and the cumulative commission add up to the
\* initial capital, and the current total equals the current cash.
C23_HoldingsAddUp ==
    /\ current_holdings["cash"] + SumOver(current_holdings, Symbols)
          + current_holdings["commission"] = initial_capital
    /\ current_holdings["total"] = current_holdings["cash"]

C23_Witness ==
    /\ n_update_bars >= 1
    /\ n_fills = 2
    /\ ~fills_failed
    /\ current_positions["A"] = mkt_quantity
    /\ current_positions["B"] = -mkt_quantity
    /\ current_holdings["commission"] = 5
    /\ current_holdings["A"] = 10000
    /\ current_holdings["B"] < 0
    /\ current_holdings["cash"] = initial_capital - 10000 - current_holdings["B"] - 5

\* C22 (SpecStats): drawdown duration.  At every index t >= 1 the duration
\* computed by create_drawdown is defined and counts the consecutive periods
\* under water: 0 where the drawdown is 0, one more than at the index before
\* otherwise, counting from 0 also when the series is below the initial
\* high-water-mark from its first compared value on; the reported duration is
\* the greatest of these counts.
RECURSIVE UnderWater(_, _)
UnderWater(drawdown, t) ==
    IF t = 0 \/ drawdown[t + 1] = Float(0) THEN Float(0)
    ELSE Add(UnderWater(drawdown, t - 1), Float(1))

C22_DrawdownDuration ==
    ret.op = "create_drawdown" =>
        LET drawdown == ret.value.drawdown
            duration == DurationSeries(drawdown)
            counts == [i \in 1..(Len(drawdown) - 1) |-> UnderWater(drawdown, i)]
        IN /\ \A i \in 2..Len(drawdown) :
                  /\ duration[i] # NaN
                  /\ duration[i] = UnderWater(drawdown, i - 1)
           /\ Len(drawdown) >= 2 => ret.value.dd_duration = SeriesMax(counts)

\* C21 (SpecFrame): frame of the current ledger.  The current positions and
\* the current holdings (cash, commission, total and the holdings of each
\* symbol) change only in a call of update_fill with a FillEvent:
\* update_timeindex, update_signal, update_bars and update_fill with an event
\* of another type leave them as they are.
CurrentLedgerChanges ==
    \/ current_positions' # current_positions
    \/ current_holdings' # current_holdings

C21_LedgerFrame ==
    [][CurrentLedgerChanges => (ret'.op = "update_fill" /\ IsEvent(ret'.arg, "FILL"))]_vars

C21_Witness ==
    /\ ret.op = "update_fill"
    /\ IsEvent(ret.arg, "ORDER")
    /\ n_update_bars >= 1
    /\ n_fills = 2
    /\ current_positions["A"] = mkt_quantity
    /\ current_holdings["A"] = 10000
    /\ current_holdings["cash"] = initial_capital - 10000
    /\ Len(all_holdings) = 2
    /\ \E i \in 1..Len(events) : events[i] = None

====
